---- MODULE Spec2Model ----
(***************************************************************************)
(* Model of src/src/main.cpp: the command-line front end of the            *)
(* Kolmogorov-Zabih disparity estimation program.  It covers the fraction  *)
(* decoder (GetFraction), the rescaling helpers (multLambdaK, setLambda,   *)
(* setLambda1, setLambda2, setK), gcd, fix_parameters and the control flow *)
(* of main together with the calls it makes into the solver (class Match). *)
(***************************************************************************)
EXTENDS Integers, Sequences, FiniteSets, TLC

VARIABLES
    pc,          \* position in main / fix_parameters
    argc,        \* argc after cmd.process (program name included)
    sDisp,       \* -o / --output
    slambda,     \* -l / --lambda
    slambda1,    \* --lambda1
    slambda2,    \* --lambda2
    sK,          \* -k
    lambda,      \* int lambda of main
    params,      \* Match::Parameters params of main
    Kf,          \* float K of fix_parameters, held as the rational num/den
    denom,       \* int denom of fix_parameters (loop scale, then the gcd)
    denomLambda, \* int denomLambda of fix_parameters / main
    calls,       \* the calls made into the solver, in order
    solverParams,\* the Parameter Set last handed to Match::SetParameters
    out,         \* what main printed on std::cout
    exitCode,    \* return value of main, -1 while running
    str,         \* argument s of a stand-alone GetFraction call
    frac,        \* result of a stand-alone GetFraction call
    op           \* the rescaling helper last called stand-alone, with denom

vars == <<pc, argc, sDisp, slambda, slambda1, slambda2, sK, lambda, params,
          Kf, denom, denomLambda, calls, solverParams, out, exitCode,
          str, frac, op>>

-----------------------------------------------------------------------------
(* Bounds of the model.                                                    *)

\* largest numerator of a fraction given on the command line
MaxNum == 1
\* largest denominator of a fraction given on the command line
MaxDen == 2
\* largest value Match::GetK returns in the model
MaxGetK == 5
\* longest string handed to the stand-alone GetFraction
MaxLen == 3
\* magnitude beyond which the model's float is infinite
FloatMax == 64
\* largest field value / denominator of the stand-alone rescaling calls
MaxField == 3

-----------------------------------------------------------------------------
(* Strings are sequences of one-character strings.                         *)

AUTO == <<"A", "U", "T", "O">>

Digits == {"0", "1", "2", "3", "4", "5", "6", "7", "8", "9"}

DigitVal(c) ==
    CASE c = "0" -> 0 [] c = "1" -> 1 [] c = "2" -> 2 [] c = "3" -> 3
      [] c = "4" -> 4 [] c = "5" -> 5 [] c = "6" -> 6 [] c = "7" -> 7
      [] c = "8" -> 8 [] c = "9" -> 9

DigitChar(n) ==
    CASE n = 0 -> "0" [] n = 1 -> "1" [] n = 2 -> "2" [] n = 3 -> "3"
      [] n = 4 -> "4" [] n = 5 -> "5" [] n = 6 -> "6" [] n = 7 -> "7"
      [] n = 8 -> "8" [] n = 9 -> "9"

\* decimal text of a natural number, as the user types it
RECURSIVE Decimal(_)
Decimal(n) ==
    IF n < 10 THEN <<DigitChar(n)>>
    ELSE Append(Decimal(n \div 10), DigitChar(n % 10))

\* the text "n" or "n/d" of a fraction, as the user types it
FractionText(n, d) ==
    IF d = 1 THEN Decimal(n) ELSE Decimal(n) \o <<"/">> \o Decimal(d)

-----------------------------------------------------------------------------
(* std::sscanf with the formats "%d/%d" and "%d".                          *)

\* index of the first non-blank character of s at or after i
RECURSIVE SkipBlanks(_, _)
SkipBlanks(s, i) ==
    IF i <= Len(s) /\ s[i] = " " THEN SkipBlanks(s, i + 1) ELSE i

\* index just after the run of digits of s that starts at i
RECURSIVE DigitsEnd(_, _)
DigitsEnd(s, i) ==
    IF i <= Len(s) /\ s[i] \in Digits THEN DigitsEnd(s, i + 1) ELSE i

\* value of the digits s[i..j-1], acc being the value read so far
RECURSIVE DigitsValue(_, _, _, _)
DigitsValue(s, i, j, acc) ==
    IF i >= j THEN acc ELSE DigitsValue(s, i + 1, j, 10 * acc + DigitVal(s[i]))

\* the conversion %d once blanks and sign are read: the digits s[f..e-1]
ScanValue(s, f, e, sign) ==
    [ok |-> e > f, val |-> sign * DigitsValue(s, f, e, 0), next |-> e]

\* the conversion %d from the first digit on
ScanDigits(s, f, sign) == ScanValue(s, f, DigitsEnd(s, f), sign)

\* the conversion %d from its optional sign on
ScanSign(s, b) ==
    IF b <= Len(s) /\ s[b] = "-" THEN ScanDigits(s, b + 1, -1)
    ELSE IF b <= Len(s) /\ s[b] = "+" THEN ScanDigits(s, b + 1, 1)
    ELSE ScanDigits(s, b, 1)

\* the conversion %d at position i: blanks, an optional sign, digits
ScanInt(s, i) == ScanSign(s, SkipBlanks(s, i))

\* "%d/%d" after both conversions were tried
ScanSecond(r1, r2) ==
    IF r2.ok THEN [count |-> 2, a |-> r1.val, b |-> r2.val]
    ELSE [count |-> 1, a |-> r1.val, b |-> 0]

\* "%d/%d" after the first conversion r1: the literal '/', then %d
ScanSlash(s, r1) ==
    IF ~r1.ok THEN [count |-> 0, a |-> 0, b |-> 0]
    ELSE IF r1.next <= Len(s) /\ s[r1.next] = "/"
    THEN ScanSecond(r1, ScanInt(s, r1.next + 1))
    ELSE [count |-> 1, a |-> r1.val, b |-> 0]

\* sscanf(s, "%d/%d", &a, &b): the number of conversions stored, and a, b
SscanfFraction(s) == ScanSlash(s, ScanInt(s, 1))

\* "%d" after its conversion r1
ScanOne(r1) ==
    IF r1.ok THEN [count |-> 1, a |-> r1.val] ELSE [count |-> 0, a |-> 0]

\* sscanf(s, "%d", &a): the number of conversions stored, and a
SscanfInt(s) == ScanOne(ScanInt(s, 1))

\* lines 52-55: ok = (numerator>=0 && denominator>=1)
Checked(n, d) ==
    [ok |-> (n >= 0 /\ d >= 1), numerator |-> n, denominator |-> d]

\* lines 49-50: the second sscanf, g its result; num1 is what the first
\* sscanf left in numerator
DecodedInt(g, num1, den0) ==
    IF g.count = 1 THEN Checked(g.a, 1) ELSE Checked(num1, den0)

\* lines 48-51: f is the result of the first sscanf
Decoded(s, f, num0, den0) ==
    IF f.count = 2 THEN Checked(f.a, f.b)
    ELSE DecodedInt(SscanfInt(s), IF f.count >= 1 THEN f.a ELSE num0, den0)

\* GetFraction(s, numerator, denominator); num0 and den0 are what the two
\* reference arguments hold on entry (den0 is uninitialised in main)
GetFraction(s, num0, den0) ==
    IF s = AUTO THEN [ok |-> TRUE, numerator |-> -1, denominator |-> 1]
    ELSE Decoded(s, SscanfFraction(s), num0, den0)

-----------------------------------------------------------------------------
(* The rescaling helpers.  Each returns the new lambda and params.         *)

\* multLambdaK(lambda, denom[5], params)
multLambdaK(lam, mult, p) ==
    [lambda |-> lam * mult[1],
     params |-> [p EXCEPT !.lambda1 = p.lambda1 * mult[2],
                          !.lambda2 = p.lambda2 * mult[3],
                          !.K = p.K * mult[4],
                          !.denominator = p.denominator * mult[5]]]

\* setLambda(lambda, denom, params)
setLambda(lam, d, p) ==
    multLambdaK(lam, <<p.denominator, d, d, d, d>>, p)

\* setLambda1(lambda, denom, params)
setLambda1(lam, d, p) ==
    multLambdaK(lam, <<d, p.denominator, d, d, d>>, p)

\* setLambda2 with the multipliers of setLambda1
setLambda2Swapped(lam, d, p) ==
    multLambdaK(lam, <<d, p.denominator, d, d, d>>, p)

\* setLambda2(lambda, denom, params)
setLambda2(lam, d, p) ==
    multLambdaK(lam, <<d, d, p.denominator, d, d>>, p)

\* setK that leaves K as decoded instead of scaling it by the denominator
setKUnscaled(lam, d, p) ==
    multLambdaK(lam, <<d, d, d, 1, d>>, p)

\* setK(lambda, denom, params)
setK(lam, d, p) ==
    multLambdaK(lam, <<d, d, d, p.denominator, d>>, p)

-----------------------------------------------------------------------------
(* gcd and the arithmetic of fix_parameters.                               *)

Abs(x) == IF x < 0 THEN 0 - x ELSE x

\* a % b of C++: the quotient is truncated towards zero
CRem(a, b) == IF a >= 0 THEN a % Abs(b) ELSE 0 - ((0 - a) % Abs(b))

\* int gcd(int a, int b)
RECURSIVE gcd(_, _)
gcd(a, b) == IF b = 0 THEN a ELSE gcd(b, CRem(a, b))

\* the float K of fix_parameters is held exactly, as num/den with den > 0:
\* every value the model reaches is a small dyadic multiple of 1/(5*den),
\* which binary32 separates from the thresholds 3 and n + 1/2
FloatOf(n, d) == [num |-> n, den |-> d]

\* K /= 5
FloatDiv5(K) == [num |-> K.num, den |-> 5 * K.den]

\* K < 3
FloatLess3(K) == K.num < 3 * K.den

\* K *= 2; a negative value beyond -FloatMax is -infinity, which stays
FloatDouble(K) ==
    IF 2 * K.num < 0 - FloatMax * K.den
    THEN [num |-> 0 - FloatMax, den |-> 1]
    ELSE [num |-> 2 * K.num, den |-> K.den]

\* int(K + 0.5f), for K >= 0
FloatRound(K) == (2 * K.num + K.den) \div (2 * K.den)

\* denom *= 2 on a 32-bit int.  Past 2^30 the product overflows, which C++
\* leaves undefined; builds compute the wrapped two's-complement value.  It
\* is reached only in a loop that never ends, so no other code reads it.
IntDouble(x) ==
    IF x >= 2^30 THEN ((x - 2^30) - 2^30) + ((x - 2^30) - 2^30)
    ELSE IF x < 0 - 2^30 THEN 2 * ((x + 2^30) + 2^30)
    ELSE 2 * x

\* if(lambda<0): lambda has to be derived from K
LambdaUnset(lam) == lam < 0

\* the test of line 108 written as params.K<0
NeedAutoKStrict(p) == p.K < 0

\* if(params.K<=0): K has to be estimated by the solver
NeedAutoK(p) == p.K <= 0

\* line 117 written with params.K<=0
DefaultKNonPositive(lam, p) == IF p.K <= 0 THEN [p EXCEPT !.K = 5 * lam] ELSE p

\* line 117: if(params.K<0) params.K = 5*lambda;
DefaultK(lam, p) == IF p.K < 0 THEN [p EXCEPT !.K = 5 * lam] ELSE p

\* line 118 without the factor 3
DefaultLambda1Plain(lam, p) ==
    IF p.lambda1 < 0 THEN [p EXCEPT !.lambda1 = lam] ELSE p

\* line 118: if(params.lambda1<0) params.lambda1 = 3*lambda;
DefaultLambda1(lam, p) ==
    IF p.lambda1 < 0 THEN [p EXCEPT !.lambda1 = 3 * lam] ELSE p

\* line 119: if(params.lambda2<0) params.lambda2 = lambda;
DefaultLambda2(lam, p) ==
    IF p.lambda2 < 0 THEN [p EXCEPT !.lambda2 = lam] ELSE p

\* lines 117-119: the defaults of K, lambda1, lambda2
FillDefaults(lam, p) ==
    DefaultLambda2(lam, DefaultLambda1(lam, DefaultK(lam, p)))

\* lines 120-123: the common divisor of the Parameter Set
CommonDivisor(p) ==
    gcd(p.K, gcd(p.lambda1, gcd(p.lambda2, p.denominator)))

\* lines 125-131 with the test written as denom>2
ReduceParamsAboveTwo(p, g) ==
    IF g > 2
    THEN [p EXCEPT !.K = p.K \div g,
                   !.lambda1 = p.lambda1 \div g,
                   !.lambda2 = p.lambda2 \div g,
                   !.denominator = p.denominator \div g]
    ELSE p

\* lines 125-131: reduce the fractions by g
ReduceParams(p, g) ==
    IF g > 1
    THEN [p EXCEPT !.K = p.K \div g,
                   !.lambda1 = p.lambda1 \div g,
                   !.lambda2 = p.lambda2 \div g,
                   !.denominator = p.denominator \div g]
    ELSE p

\* lines 124-126: the denominator fix_parameters keeps for lambda
LambdaDenominator(p, g) == IF g > 1 THEN g ELSE p.denominator

\* line 246 without the test of sDisp
WantsDisparityPositional(n, o) == n > 5

\* line 246: compute the disparity map, or only report the parameters
WantsDisparity(n, o) == n > 5 \/ o # <<>>

-----------------------------------------------------------------------------
(* Inputs of a run.                                                        *)

\* lines 144-149: the default parameters
DefaultParams ==
    [dataCost |-> "L2", denominator |-> 1, edgeThresh |-> 8,
     lambda1 |-> -1, lambda2 |-> -1, K |-> -1,
     maxIter |-> 4, bRandomizeEveryIteration |-> FALSE]

\* texts of the fractions n/d the user may give
FractionTexts == {FractionText(n, d) : n \in 0..MaxNum, d \in 1..MaxDen}

\* what an option --lambda1, --lambda2, -k may hold: nothing (option
\* absent), AUTO, a fraction, or a text that is no number
OptionTexts == {<<>>, AUTO, <<"x">>} \cup FractionTexts

\* what the option -l may hold: the same, and the text 2
LambdaTexts == OptionTexts \cup {<<"2">>}

\* argc once cmd.process has removed the options: 3 to 5 positionals
ArgCounts == {4, 5, 6}

\* -o absent or present
OutputTexts == {<<>>, <<"d">>}

\* -c absent, L1, L2, or another text
CostTexts == {<<>>, <<"L", "1">>, <<"L", "2">>, <<"L", "3">>}

\* what an uninitialised int may hold
Garbage == {-1, 0, 1}

\* values Match::GetK may return (the solver is external to main.cpp)
GetKValues == -1..MaxGetK

inputs == <<argc, sDisp, slambda, slambda1, slambda2, sK>>
standalone == <<str, frac, op>>
fixLocals == <<Kf, denom, denomLambda>>
solver == <<calls, solverParams>>

Init ==
    /\ pc = "start"
    /\ argc = 0
    /\ sDisp = <<>>
    /\ slambda = <<>>
    /\ slambda1 = <<>>
    /\ slambda2 = <<>>
    /\ sK = <<>>
    /\ lambda = -1
    /\ params = DefaultParams
    /\ Kf = FloatOf(0, 1)
    /\ denom = 0
    /\ denomLambda = 0
    /\ calls = <<>>
    /\ solverParams = DefaultParams
    /\ out = <<>>
    /\ exitCode = -1
    /\ str = <<>>
    /\ frac = [ok |-> FALSE, numerator |-> -1, denominator |-> 0]
    /\ op = <<"none", 0>>

-----------------------------------------------------------------------------
(* main, lines 151-213.                                                    *)

\* lines 163-179: cmd.process fills the option variables; wrong arity ends
\* the run
CmdProcess ==
    /\ pc = "start"
    /\ \E n \in ArgCounts, o \in OutputTexts,
          l \in LambdaTexts, l1 \in OptionTexts,
          l2 \in OptionTexts, k \in OptionTexts :
          /\ argc' = n
          /\ sDisp' = o
          /\ slambda' = l
          /\ slambda1' = l1
          /\ slambda2' = l2
          /\ sK' = k
          /\ IF n # 5 /\ n # 6
             THEN pc' = "exit" /\ exitCode' = 1
             ELSE pc' = "options" /\ exitCode' = exitCode
    /\ UNCHANGED <<lambda, params, fixLocals, solver, out, standalone>>

\* lines 181-191: -r and -c
Options ==
    /\ pc = "options"
    /\ \E r \in BOOLEAN, cost \in CostTexts :
          \E p1 \in {IF r THEN [params EXCEPT !.bRandomizeEveryIteration = TRUE]
                      ELSE params} :
              IF cost = <<>>
              THEN params' = p1 /\ pc' = "opt_lambda" /\ exitCode' = exitCode
              ELSE IF cost = <<"L", "1">>
              THEN /\ params' = [p1 EXCEPT !.dataCost = "L1"]
                   /\ pc' = "opt_lambda" /\ exitCode' = exitCode
              ELSE IF cost = <<"L", "2">>
              THEN /\ params' = [p1 EXCEPT !.dataCost = "L2"]
                   /\ pc' = "opt_lambda" /\ exitCode' = exitCode
              ELSE params' = p1 /\ pc' = "exit" /\ exitCode' = 1
    /\ UNCHANGED <<inputs, lambda, fixLocals, solver, out, standalone>>

\* the outcome of one override: the decode succeeded or not, and what
\* lambda and params hold afterwards
Overridden(ok, q) == [ok |-> ok, lambda |-> q.lambda, params |-> q.params]

\* lines 196-197, r being what GetFraction(slambda, lambda, denom) gave
LambdaDecoded(r, p) ==
    IF ~r.ok THEN [ok |-> FALSE, lambda |-> r.numerator, params |-> p]
    ELSE Overridden(TRUE, setLambda(r.numerator, r.denominator, p))

\* lines 194-198: -l; g is what the uninitialised denom holds
LambdaOverride(s, lam, p, g) ==
    IF s = <<>> THEN [ok |-> TRUE, lambda |-> lam, params |-> p]
    ELSE LambdaDecoded(GetFraction(s, lam, g), p)

\* lines 201-202, r being what GetFraction(slambda1, params.lambda1, denom)
\* gave and p1 the bundle with lambda1 as GetFraction left it
Lambda1Decoded(r, lam, p1) ==
    IF ~r.ok THEN [ok |-> FALSE, lambda |-> lam, params |-> p1]
    ELSE Overridden(TRUE, setLambda1(lam, r.denominator, p1))

\* lines 201-202, r being what GetFraction gave
Lambda1Stored(r, lam, p) ==
    Lambda1Decoded(r, lam, [p EXCEPT !.lambda1 = r.numerator])

\* lines 199-203: --lambda1
Lambda1Override(s, lam, p, g) ==
    IF s = <<>> THEN [ok |-> TRUE, lambda |-> lam, params |-> p]
    ELSE Lambda1Stored(GetFraction(s, p.lambda1, g), lam, p)

\* lines 206-207, r being what GetFraction(slambda2, params.lambda2, denom)
\* gave and p1 the bundle with lambda2 as GetFraction left it
Lambda2Decoded(r, lam, p1) ==
    IF ~r.ok THEN [ok |-> FALSE, lambda |-> lam, params |-> p1]
    ELSE Overridden(TRUE, setLambda2(lam, r.denominator, p1))

\* lines 206-207, r being what GetFraction gave
Lambda2Stored(r, lam, p) ==
    Lambda2Decoded(r, lam, [p EXCEPT !.lambda2 = r.numerator])

\* lines 204-208: --lambda2
Lambda2Override(s, lam, p, g) ==
    IF s = <<>> THEN [ok |-> TRUE, lambda |-> lam, params |-> p]
    ELSE Lambda2Stored(GetFraction(s, p.lambda2, g), lam, p)

\* lines 211-212, r being what GetFraction(sK, params.K, denom) gave and
\* p1 the bundle with K as GetFraction left it
KDecoded(r, lam, p1) ==
    IF ~r.ok THEN [ok |-> FALSE, lambda |-> lam, params |-> p1]
    ELSE Overridden(TRUE, setK(lam, r.denominator, p1))

\* lines 211-212, r being what GetFraction gave
KStored(r, lam, p) == KDecoded(r, lam, [p EXCEPT !.K = r.numerator])

\* lines 209-213: -k
KOverride(s, lam, p, g) ==
    IF s = <<>> THEN [ok |-> TRUE, lambda |-> lam, params |-> p]
    ELSE KStored(GetFraction(s, p.K, g), lam, p)

\* main after an override with outcome q: on to position next, or return 1
AfterOverride(q, next) ==
    /\ lambda' = q.lambda
    /\ params' = q.params
    /\ IF q.ok THEN pc' = next /\ exitCode' = exitCode
       ELSE pc' = "exit" /\ exitCode' = 1
    /\ UNCHANGED <<inputs, fixLocals, solver, out, standalone>>

\* lines 193-198: -l
OverrideLambda ==
    /\ pc = "opt_lambda"
    /\ \E g \in Garbage :
          AfterOverride(LambdaOverride(slambda, lambda, params, g),
                        "opt_lambda1")

\* lines 199-203: --lambda1
OverrideLambda1 ==
    /\ pc = "opt_lambda1"
    /\ \E g \in Garbage :
          AfterOverride(Lambda1Override(slambda1, lambda, params, g),
                        "opt_lambda2")

\* lines 204-208: --lambda2
OverrideLambda2 ==
    /\ pc = "opt_lambda2"
    /\ \E g \in Garbage :
          AfterOverride(Lambda2Override(slambda2, lambda, params, g), "opt_K")

\* lines 209-213: -k
OverrideK ==
    /\ pc = "opt_K"
    /\ \E g \in Garbage :
          AfterOverride(KOverride(sK, lambda, params, g), "load")

-----------------------------------------------------------------------------
(* main, lines 215-243.  Pixel data is outside the model: the two images   *)
(* either load or do not, and the solver m is built from them.             *)

\* lines 215-231: imLoad of both images, then Match m(im1, im2, color)
LoadImages ==
    /\ pc = "load"
    /\ \E ok1 \in BOOLEAN, ok2 \in BOOLEAN :
          IF ok1 /\ ok2
          THEN pc' = "range" /\ exitCode' = exitCode
          ELSE pc' = "exit" /\ exitCode' = 1
    /\ UNCHANGED <<inputs, lambda, params, fixLocals, solver, out, standalone>>

\* lines 234-243: dMin and dMax must parse to the end; m.SetDispRange
ParseRange ==
    /\ pc = "range"
    /\ \E parsed \in BOOLEAN :
          IF parsed
          THEN /\ calls' = Append(calls, "SetDispRange")
               /\ pc' = "fix_enter" /\ exitCode' = exitCode
          ELSE /\ calls' = calls
               /\ pc' = "exit" /\ exitCode' = 1
    /\ UNCHANGED <<inputs, lambda, params, fixLocals, solverParams, out,
                   standalone>>

-----------------------------------------------------------------------------
(* fix_parameters, lines 105-140, called at line 245.                      *)

\* lines 106-112: how the float K starts when lambda is derived from K
FixEnter ==
    /\ pc = "fix_enter"
    /\ \/ /\ LambdaUnset(lambda)
          /\ NeedAutoK(params)
          /\ \E k \in GetKValues :
                Kf' = FloatDiv5(FloatOf(k, 1))
          /\ calls' = calls \o <<"SetParameters", "GetK">>
          /\ solverParams' = params
          /\ denom' = 1
          /\ pc' = "fix_loop"
       \/ /\ LambdaUnset(lambda)
          /\ ~NeedAutoK(params)
          /\ Kf' = FloatDiv5(FloatOf(params.K, params.denominator))
          /\ denom' = 1
          /\ pc' = "fix_loop"
          /\ UNCHANGED solver
       \/ /\ ~LambdaUnset(lambda)
          /\ pc' = "fix_defaults"
          /\ UNCHANGED <<Kf, denom, solver>>
    /\ UNCHANGED <<inputs, lambda, params, denomLambda, out, exitCode,
                   standalone>>

\* line 113: one turn of while(K < 3) { K *= 2; denom *= 2; }
FixLoop ==
    /\ pc = "fix_loop"
    /\ FloatLess3(Kf)
    /\ Kf' = FloatDouble(Kf)
    /\ denom' = IntDouble(denom)
    /\ UNCHANGED <<pc, inputs, lambda, params, denomLambda, solver, out,
                   exitCode, standalone>>

\* lines 113-115: the loop ends; lambda = int(K+0.5f); setLambda
FixSetLambda ==
    /\ pc = "fix_loop"
    /\ ~FloatLess3(Kf)
    /\ \E q \in {setLambda(FloatRound(Kf), denom, params)} :
          lambda' = q.lambda /\ params' = q.params
    /\ pc' = "fix_defaults"
    /\ UNCHANGED <<inputs, fixLocals, solver, out, exitCode, standalone>>

\* lines 117-119
FixDefaults ==
    /\ pc = "fix_defaults"
    /\ params' = FillDefaults(lambda, params)
    /\ pc' = "fix_reduce"
    /\ UNCHANGED <<inputs, lambda, fixLocals, solver, out, exitCode,
                   standalone>>

\* lines 120-132: reduce by the common divisor, then m.SetParameters
FixReduce ==
    /\ pc = "fix_reduce"
    /\ \E g \in {CommonDivisor(params)} :
          /\ denom' = g
          /\ denomLambda' = LambdaDenominator(params, g)
          /\ params' = ReduceParams(params, g)
    /\ calls' = Append(calls, "SetParameters")
    /\ solverParams' = params'
    /\ pc' = "fix_report"
    /\ UNCHANGED <<inputs, lambda, Kf, out, exitCode, standalone>>

\* lines 133-139: reduce lambda/denomLambda and return denomLambda
FixReport ==
    /\ pc = "fix_report"
    /\ \E g \in {gcd(lambda, denomLambda)} :
          /\ denom' = g
          /\ lambda' = IF g > 1 THEN lambda \div g ELSE lambda
          /\ denomLambda' = IF g > 1 THEN denomLambda \div g ELSE denomLambda
    /\ pc' = "mode"
    /\ UNCHANGED <<inputs, params, Kf, solver, out, exitCode, standalone>>

-----------------------------------------------------------------------------
(* main, lines 246-263.                                                    *)

\* what lines 253-258 print: K[/denominator] and lambda[/denomLambda]
Printed(p, lam, dl) ==
    [K |-> IF p.denominator # 1 THEN <<p.K, p.denominator>> ELSE <<p.K>>,
     lambda |-> IF dl # 1 THEN <<lam, dl>> ELSE <<lam>>]

\* lines 246-251: KZ2, then the disparity map is saved
RunSolver ==
    /\ pc = "mode"
    /\ WantsDisparity(argc, sDisp)
    /\ calls' = calls \o <<"KZ2">>
                  \o (IF argc > 5 THEN <<"SaveXLeft">> ELSE <<>>)
                  \o (IF sDisp # <<>> THEN <<"SaveScaledXLeft">> ELSE <<>>)
    /\ pc' = "done"
    /\ exitCode' = 0
    /\ UNCHANGED <<inputs, lambda, params, fixLocals, solverParams, out,
                   standalone>>

\* lines 252-259: K and lambda are printed
PrintParameters ==
    /\ pc = "mode"
    /\ ~WantsDisparity(argc, sDisp)
    /\ out' = <<Printed(params, lambda, denomLambda)>>
    /\ pc' = "done"
    /\ exitCode' = 0
    /\ UNCHANGED <<inputs, lambda, params, fixLocals, solver, standalone>>

Next ==
    \/ CmdProcess
    \/ Options
    \/ OverrideLambda
    \/ OverrideLambda1
    \/ OverrideLambda2
    \/ OverrideK
    \/ LoadImages
    \/ ParseRange
    \/ FixEnter
    \/ FixLoop
    \/ FixSetLambda
    \/ FixDefaults
    \/ FixReduce
    \/ FixReport
    \/ RunSolver
    \/ PrintParameters

Spec == Init /\ [][Next]_vars

-----------------------------------------------------------------------------
(* fix_parameters and what follows it, from every state in which main can  *)
(* call it at line 245: the options decoded, the images loaded, the        *)
(* disparity range set.                                                    *)

InitFix ==
    /\ pc = "fix_enter"
    /\ argc \in {5, 6}
    /\ sDisp = <<>>
    /\ slambda \in LambdaTexts
    /\ slambda1 \in OptionTexts
    /\ slambda2 \in OptionTexts
    /\ sK \in OptionTexts
    /\ \E q1 \in {LambdaOverride(slambda, -1, DefaultParams, 0)} :
         /\ q1.ok
         /\ \E q2 \in {Lambda1Override(slambda1, q1.lambda, q1.params, 0)} :
              /\ q2.ok
              /\ \E q3 \in {Lambda2Override(slambda2, q2.lambda,
                                            q2.params, 0)} :
                   /\ q3.ok
                   /\ \E q4 \in {KOverride(sK, q3.lambda, q3.params, 0)} :
                        /\ q4.ok
                        /\ lambda = q4.lambda
                        /\ params = q4.params
    /\ Kf = FloatOf(0, 1)
    /\ denom = 0
    /\ denomLambda = 0
    /\ calls = <<"SetDispRange">>
    /\ solverParams = DefaultParams
    /\ out = <<>>
    /\ exitCode = -1
    /\ str = <<>>
    /\ frac = [ok |-> FALSE, numerator |-> -1, denominator |-> 0]
    /\ op = <<"none", 0>>

NextFix ==
    \/ FixEnter
    \/ FixLoop
    \/ FixSetLambda
    \/ FixDefaults
    \/ FixReduce
    \/ FixReport
    \/ RunSolver
    \/ PrintParameters

\* main is one sequential thread: a step that can be taken is taken
FairSpec == InitFix /\ [][NextFix]_vars /\ WF_vars(NextFix)

-----------------------------------------------------------------------------
(* GetFraction on its own: every short text over a small alphabet.         *)

Alphabet == {"0", "1", "2", "/", "-", "x", " "}

RECURSIVE TextsOfLength(_)
TextsOfLength(n) ==
    IF n = 0 THEN {<<>>}
    ELSE {Append(s, c) : s \in TextsOfLength(n - 1), c \in Alphabet}

DecodeTexts == {AUTO} \cup UNION {TextsOfLength(n) : n \in 0..MaxLen}

\* numerator is negative and denom uninitialised when main calls GetFraction
InitDecode ==
    /\ pc = "decode"
    /\ str \in DecodeTexts
    /\ frac \in [ok : {FALSE}, numerator : {-1}, denominator : Garbage]
    /\ op = <<"none", 0>>
    /\ argc = 0
    /\ sDisp = <<>>
    /\ slambda = <<>>
    /\ slambda1 = <<>>
    /\ slambda2 = <<>>
    /\ sK = <<>>
    /\ lambda = -1
    /\ params = DefaultParams
    /\ Kf = FloatOf(0, 1)
    /\ denom = 0
    /\ denomLambda = 0
    /\ calls = <<>>
    /\ solverParams = DefaultParams
    /\ out = <<>>
    /\ exitCode = -1

\* lines 46-56: one call GetFraction(str, numerator, denominator)
DecodeCall ==
    /\ pc = "decode"
    /\ frac' = GetFraction(str, frac.numerator, frac.denominator)
    /\ pc' = "decoded"
    /\ UNCHANGED <<inputs, lambda, params, fixLocals, solver, out, exitCode,
                   str, op>>

NextDecode == DecodeCall

SpecDecode == InitDecode /\ [][NextDecode]_vars

-----------------------------------------------------------------------------
(* The rescaling helpers on their own: one call on a bounded bundle.       *)

FieldValues == -1..MaxField

InitRescale ==
    /\ pc = "rescale"
    /\ lambda \in FieldValues
    /\ params \in [dataCost : {"L1", "L2"}, denominator : 1..MaxField,
                   edgeThresh : {8}, lambda1 : FieldValues,
                   lambda2 : FieldValues, K : FieldValues,
                   maxIter : {4}, bRandomizeEveryIteration : BOOLEAN]
    /\ op = <<"none", 0>>
    /\ str = <<>>
    /\ frac = [ok |-> FALSE, numerator |-> -1, denominator |-> 0]
    /\ argc = 0
    /\ sDisp = <<>>
    /\ slambda = <<>>
    /\ slambda1 = <<>>
    /\ slambda2 = <<>>
    /\ sK = <<>>
    /\ Kf = FloatOf(0, 1)
    /\ denom = 0
    /\ denomLambda = 0
    /\ calls = <<>>
    /\ solverParams = DefaultParams
    /\ out = <<>>
    /\ exitCode = -1

\* the state after a helper returned q, called with denom d
Rescaled(name, d, q) ==
    /\ lambda' = q.lambda
    /\ params' = q.params
    /\ op' = <<name, d>>
    /\ pc' = "rescaled"
    /\ UNCHANGED <<inputs, fixLocals, solver, out, exitCode, str, frac>>

CallSetLambda ==
    /\ pc = "rescale"
    /\ \E d \in 1..MaxField :
          Rescaled("setLambda", d, setLambda(lambda, d, params))

CallSetLambda1 ==
    /\ pc = "rescale"
    /\ \E d \in 1..MaxField :
          Rescaled("setLambda1", d, setLambda1(lambda, d, params))

CallSetLambda2 ==
    /\ pc = "rescale"
    /\ \E d \in 1..MaxField :
          Rescaled("setLambda2", d, setLambda2(lambda, d, params))

CallSetK ==
    /\ pc = "rescale"
    /\ \E d \in 1..MaxField :
          Rescaled("setK", d, setK(lambda, d, params))

NextRescale ==
    \/ CallSetLambda
    \/ CallSetLambda1
    \/ CallSetLambda2
    \/ CallSetK

SpecRescale == InitRescale /\ [][NextRescale]_vars

-----------------------------------------------------------------------------
(* What the properties below speak about.                                  *)

\* s consists of one or more digits
AllDigits(s) == Len(s) > 0 /\ \A i \in 1..Len(s) : s[i] \in Digits

\* s is an <int>: digits, possibly after a minus sign
IntText(s) == AllDigits(s) \/ (Len(s) > 1 /\ s[1] = "-" /\ AllDigits(Tail(s)))

\* the integer an <int> denotes
IntValue(s) ==
    IF s[1] = "-" THEN 0 - DigitsValue(s, 2, Len(s) + 1, 0)
    ELSE DigitsValue(s, 1, Len(s) + 1, 0)

\* the positions of s where it splits into <int>/<int>
Splits(s) ==
    {k \in 1..Len(s) : /\ s[k] = "/"
                       /\ IntText(SubSeq(s, 1, k - 1))
                       /\ IntText(SubSeq(s, k + 1, Len(s)))}

\* the pairs (numerator, denominator) the text s denotes as a fraction:
\* "<int>" with int >= 0, or "<int>/<int>" with numerator >= 0 and
\* denominator >= 1; empty when s is neither
Denoted(s) ==
    {<<IntValue(s), 1>> : x \in {y \in {s} : IntText(y) /\ IntValue(y) >= 0}}
    \cup {<<IntValue(SubSeq(s, 1, k - 1)), IntValue(SubSeq(s, k + 1, Len(s)))>> :
            k \in {j \in Splits(s) :
                     /\ IntValue(SubSeq(s, 1, j - 1)) >= 0
                     /\ IntValue(SubSeq(s, j + 1, Len(s))) >= 1}}

\* the user left the coefficient to the program: option absent or AUTO
Unset(s) == s = <<>> \/ s = AUTO

\* fix_parameters is past its final m.SetParameters (line 132)
Finalized == pc \in {"fix_report", "mode", "done"}

\* the number of entries c in the call sequence
Count(c) == Cardinality({i \in 1..Len(calls) : calls[i] = c})

\* no g > 1 divides K, lambda1, lambda2 and denominator of p
Coprime(p) ==
    /\ p.denominator >= 1
    /\ \A g \in 2..p.denominator :
         ~(/\ p.K % g = 0
           /\ p.lambda1 % g = 0
           /\ p.lambda2 % g = 0
           /\ p.denominator % g = 0)

\* the denominator the bundle had before lines 125-131 divided it,
\* while denom still holds the common divisor (pc = "fix_report")
Unreduced == params.denominator * (IF denom > 1 THEN denom ELSE 1)

\* the default-derivation scenario: -l 2 and nothing else
Scenario ==
    slambda = <<"2">> /\ slambda1 = <<>> /\ slambda2 = <<>> /\ sK = <<>>

-----------------------------------------------------------------------------
(* C1: once fix_parameters has handed over the Parameter Set, each of      *)
(* lambda1, lambda2, K that the user gave as a fraction n/d has exactly    *)
(* that value over the shared denominator: field * d = n * denominator.    *)
UserValuesKept ==
    Finalized =>
      /\ \A f \in Denoted(slambda1) :
           solverParams.lambda1 * f[2] = f[1] * solverParams.denominator
      /\ \A f \in Denoted(slambda2) :
           solverParams.lambda2 * f[2] = f[1] * solverParams.denominator
      /\ \A f \in Denoted(sK) :
           solverParams.K * f[2] = f[1] * solverParams.denominator

\* a finished run with lambda derived from K, and lambda1, K given as
\* fractions whose denominators differ
UserValuesKeptWitness ==
    /\ pc = "done"
    /\ Unset(slambda)
    /\ slambda1 = <<"1", "/", "2">>
    /\ slambda2 = <<>>
    /\ sK = <<"1">>
    /\ solverParams.denominator > 2

(* C2: the Parameter Set handed to the final SetParameters has no common   *)
(* divisor greater than 1 among K, lambda1, lambda2, denominator.          *)
HandedOverCoprime == Finalized => Coprime(solverParams)

\* a run in which lines 125-131 did divide by a divisor > 1
HandedOverCoprimeWitness ==
    /\ pc = "fix_report"
    /\ denom > 1
    /\ solverParams.denominator > 1

(* C3: fix_parameters always returns: from its entry the run reaches the   *)
(* mode branch of main, whatever GetK returned.                            *)
FixParametersReturns == (pc = "fix_enter") ~> (pc = "mode")

\* what every state of a run shows of the order of the solver calls
CallOrderState ==
    /\ \A i \in 1..Len(calls) :
         /\ calls[i] = "SetParameters" =>
              \E j \in 1..(i - 1) : calls[j] = "SetDispRange"
         /\ calls[i] = "GetK" => i > 1 /\ calls[i - 1] = "SetParameters"
    /\ Count("GetK") <= 1
    /\ ~Finalized => Count("SetParameters") = Count("GetK")
    /\ Finalized =>
         /\ Count("SetParameters") = Count("GetK") + 1
         /\ solverParams = params
         /\ params.K >= 0 /\ params.lambda1 >= 0 /\ params.lambda2 >= 0
         /\ Coprime(params)
         /\ \A i \in 1..Len(calls) : \A j \in 1..Len(calls) :
              calls[i] = "KZ2" /\ calls[j] = "SetParameters" => j < i

\* what every step of a run shows of the order of the solver calls
CallOrderStep ==
    /\ pc = "fix_enter" =>
         IF lambda < 0 /\ params.K <= 0
         THEN calls' = calls \o <<"SetParameters", "GetK">>
         ELSE calls' = calls
    /\ pc = "fix_reduce" => calls' = Append(calls, "SetParameters")
    /\ Finalized => params' = params /\ solverParams' = solverParams

(* C4: SetDispRange comes before every SetParameters; GetK directly        *)
(* follows a SetParameters; the provisional SetParameters and GetK happen  *)
(* on entry exactly when lambda < 0 and K <= 0; after that SetParameters   *)
(* is called once more, with the bundle that has its defaults filled and   *)
(* is reduced, and neither the bundle nor the solver's copy changes        *)
(* afterwards, up to and including KZ2.                                    *)
CallOrder == []CallOrderState /\ [][CallOrderStep]_vars

\* a run that estimated K, handed the final bundle over and ran KZ2
CallOrderWitness ==
    /\ pc = "done"
    /\ calls = <<"SetDispRange", "SetParameters", "GetK", "SetParameters",
                 "KZ2", "SaveXLeft">>

(* C5: the pair (lambda, denomLambda) that fix_parameters returns denotes  *)
(* the resolved base weight, lambda over the denominator the bundle had    *)
(* before its reduction.                                                   *)
ReportedLambdaIsBaseWeight ==
    [][pc = "fix_report" =>
         lambda' * Unreduced = lambda * denomLambda']_vars

(* C6, as the specification states it: in the default-derivation scenario  *)
(* the final Parameter Set is K=5, lambda1=3, lambda2=1, denominator=1.    *)
ScenarioReducedByTwo ==
    (Finalized /\ Scenario) =>
      /\ solverParams.K = 5
      /\ solverParams.lambda1 = 3
      /\ solverParams.lambda2 = 1
      /\ solverParams.denominator = 1

(* C6, amended: in the default-derivation scenario step 2 resolves K=10,   *)
(* lambda1=6, lambda2=2 over denominator 1, and the final Parameter Set is *)
(* the same, as the common divisor of 10, 6, 2 and 1 is 1.                 *)
ScenarioKeepsResolved ==
    /\ (pc = "fix_reduce" /\ Scenario) =>
         /\ params.K = 10 /\ params.lambda1 = 6 /\ params.lambda2 = 2
         /\ params.denominator = 1
    /\ (Finalized /\ Scenario) =>
         /\ denom = 1
         /\ solverParams.K = 10
         /\ solverParams.lambda1 = 6
         /\ solverParams.lambda2 = 2
         /\ solverParams.denominator = 1

\* the scenario, just after the final SetParameters
ScenarioWitness == pc = "fix_report" /\ Scenario /\ lambda = 2

(* C7: a run with 4 positional arguments and no -o never calls KZ2, saves  *)
(* nothing and prints K and lambda; any other finished run calls KZ2       *)
(* exactly once, after the final SetParameters and before every save.      *)
ModeSelection ==
    /\ ("KZ2" \in {calls[i] : i \in 1..Len(calls)}) =>
         /\ pc = "done"
         /\ argc > 5 \/ sDisp # <<>>
    /\ pc # "done" => out = <<>> /\ Count("SaveXLeft") = 0
                                 /\ Count("SaveScaledXLeft") = 0
    /\ (pc = "done" /\ argc = 5 /\ sDisp = <<>>) =>
         /\ Count("KZ2") = 0
         /\ Count("SaveXLeft") = 0 /\ Count("SaveScaledXLeft") = 0
         /\ out = <<Printed(params, lambda, denomLambda)>>
    /\ (pc = "done" /\ (argc > 5 \/ sDisp # <<>>)) =>
         /\ Count("KZ2") = 1
         /\ out = <<>>
         /\ \A i \in 1..Len(calls) : \A j \in 1..Len(calls) :
              /\ (calls[i] = "SetParameters" /\ calls[j] = "KZ2") => i < j
              /\ (calls[i] = "KZ2"
                  /\ calls[j] \in {"SaveXLeft", "SaveScaledXLeft"}) => i < j

\* a finished run with 4 positional arguments and -o
ModeSelectionWitness ==
    /\ pc = "done"
    /\ argc = 5
    /\ sDisp # <<>>
    /\ calls[Len(calls)] = "SaveScaledXLeft"

(* C8: GetFraction succeeds exactly on AUTO, giving (-1,1), and on the     *)
(* texts that denote a fraction, giving numerator and denominator; on      *)
(* every other text it fails.                                              *)
DecodeIsStrict ==
    pc = "decoded" =>
      IF str = AUTO
      THEN frac = [ok |-> TRUE, numerator |-> -1, denominator |-> 1]
      ELSE /\ frac.ok <=> Denoted(str) # {}
           /\ frac.ok => <<frac.numerator, frac.denominator>> \in Denoted(str)

(* C9: at step 2 a coefficient is negative exactly when the user left it   *)
(* unset; after finalization an unset K, lambda1, lambda2 is 5*lambda,     *)
(* 3*lambda, lambda over the shared denominator, and a coefficient the     *)
(* user gave keeps the value given.                                        *)
DefaultsOnlyForUnset ==
    /\ pc = "fix_defaults" =>
         /\ params.K < 0 <=> Unset(sK)
         /\ params.lambda1 < 0 <=> Unset(slambda1)
         /\ params.lambda2 < 0 <=> Unset(slambda2)
    /\ pc = "fix_report" =>
         /\ lambda >= 0
         /\ IF Unset(sK)
            THEN params.K * Unreduced = 5 * lambda * params.denominator
            ELSE \A f \in Denoted(sK) :
                   params.K * f[2] = f[1] * params.denominator
         /\ IF Unset(slambda1)
            THEN params.lambda1 * Unreduced = 3 * lambda * params.denominator
            ELSE \A f \in Denoted(slambda1) :
                   params.lambda1 * f[2] = f[1] * params.denominator
         /\ IF Unset(slambda2)
            THEN params.lambda2 * Unreduced = lambda * params.denominator
            ELSE \A f \in Denoted(slambda2) :
                   params.lambda2 * f[2] = f[1] * params.denominator

\* lambda given, K given as 0, lambda1 and lambda2 left to their defaults
DefaultsOnlyForUnsetWitness ==
    /\ pc = "fix_report"
    /\ slambda = <<"1", "/", "2">>
    /\ sK = <<"0">>
    /\ Unset(slambda1)
    /\ slambda2 = AUTO
    /\ params.K = 0
    /\ params.lambda1 > 0

\* value a over denominator b is value c over denominator e
SameValue(a, b, c, e) == b # 0 /\ e # 0 /\ a * e = c * b

\* what a step that returns from a rescaling helper shows
RescaleFrameStep ==
    pc' = "rescaled" =>
      /\ IF op'[1] = "setLambda"
         THEN SameValue(lambda', params'.denominator, lambda, op'[2])
         ELSE SameValue(lambda', params'.denominator,
                        lambda, params.denominator)
      /\ IF op'[1] = "setLambda1"
         THEN SameValue(params'.lambda1, params'.denominator,
                        params.lambda1, op'[2])
         ELSE SameValue(params'.lambda1, params'.denominator,
                        params.lambda1, params.denominator)
      /\ IF op'[1] = "setLambda2"
         THEN SameValue(params'.lambda2, params'.denominator,
                        params.lambda2, op'[2])
         ELSE SameValue(params'.lambda2, params'.denominator,
                        params.lambda2, params.denominator)
      /\ IF op'[1] = "setK"
         THEN SameValue(params'.K, params'.denominator, params.K, op'[2])
         ELSE SameValue(params'.K, params'.denominator,
                        params.K, params.denominator)
      /\ params'.dataCost = params.dataCost
      /\ params'.edgeThresh = params.edgeThresh
      /\ params'.maxIter = params.maxIter
      /\ params'.bRandomizeEveryIteration = params.bRandomizeEveryIteration

(* C10: a call of setLambda, setLambda1, setLambda2 or setK with denom d   *)
(* leaves the target at (its value before)/d, leaves the value of every    *)
(* other field over the shared denominator as it was, and does not touch   *)
(* dataCost, edgeThresh, maxIter, bRandomizeEveryIteration.                *)
RescaleFrame == [][RescaleFrameStep]_vars

\* setK was called with denom 2 on a bundle whose denominator was 3
RescaleFrameWitness ==
    /\ pc = "rescaled"
    /\ op = <<"setK", 2>>
    /\ params.denominator = 6
    /\ params.K = 9
    /\ lambda = -2

====
